---- MODULE Spec2Model ----
(***************************************************************************)
(* Transaction tracking of the WhatsApp <-> Otomax bridge.                 *)
(*                                                                         *)
(* The repository holds two generations of the tracking store:             *)
(*   backend = "repo"   : TransactionService over the SQLite              *)
(*                        TransactionRepository (unnamed/part_002,         *)
(*                        unnamed/part_003)                                *)
(*   backend = "memory" : TransactionService over the in-memory            *)
(*                        MessageTracker (internal/service/transaction.go, *)
(*                        handler in internal/model/message.go)            *)
(* A build contains one of them; Init draws which.                         *)
(*                                                                         *)
(* Time is a discrete clock `now`; time.Now() reads it.                    *)
(***************************************************************************)
EXTENDS Integers, Sequences, FiniteSets, TLC

\* ------------------------------------------------------------------ bounds
MaxTime == 3
TTL == 2
MaxMsgs == 2
MaxLag == 1

Procs == {"h1", "h2"}
TrxIDs == {"TRX1", "TRX2"}
Destinations == {"081234567890", "g1@g.us"}
Backends == {"repo", "memory"}

\* ------------------------------------------------------------ destinations
\* ValidateDestination: a destination containing "@g.us" is parsed as a group
\* JID; anything else is normalised to 62xxx and becomes a user JID.
IsGroup(destination) == destination = "g1@g.us"

\* Non-digits removed, leading zeros trimmed, 62 prefixed, 11..15 digits kept:
\* the result for the phone number of Destinations, "" for anything else.
normalizePhoneNumber(phone) == IF phone = "081234567890" THEN "6281234567890" ELSE ""

\* jid.String() of the JID that ValidateDestination returns.
JidOf(destination) ==
    IF IsGroup(destination) THEN destination
    ELSE IF normalizePhoneNumber(destination) = "6281234567890"
    THEN "6281234567890@s.whatsapp.net"
    ELSE ""

DestTypeOf(destination) == IF IsGroup(destination) THEN "group" ELSE "personal"

JIDs == {JidOf(d) : d \in Destinations}

\* Outcome of ValidateDestination given what the WhatsApp client answers
\* (GetGroupInfo / IsOnWhatsApp): "" on success, the error text otherwise.
ValidateDestination(destination, found) ==
    IF IsGroup(destination)
    THEN IF found THEN "" ELSE "group not found or bot not a member"
    ELSE IF normalizePhoneNumber(destination) = "" THEN "invalid phone number format"
    ELSE IF found THEN "" ELSE "phone number not registered on WhatsApp"

\* ---------------------------------------------------------------- state
VARIABLES
    backend,     \* which TransactionService the build contains
    whitelist,   \* WhatsAppService.webhookWhitelist
    now,         \* the wall clock
    rows,        \* the rows of table `transactions`
    cache,       \* the entries of MessageTracker.cache
    sent,        \* number of messages WhatsApp accepted; their ids are 1..sent
    pc,          \* position of each request handler
    req,         \* the TransactionRequest a handler in flight works on
    peerSent,    \* a handler in flight: a concurrent call with the same TrxID has sent its message meanwhile
    out,         \* what the step just taken returned or logged (NoOut: nothing)
    retryCount,  \* OtomaxConfig.RetryCount
    wh,          \* the SendWebhook call the event handler is in (IdleWh: none)
    apiKey,      \* AuthMiddleware.apiKey ("": API_KEY is not set)
    phase        \* "serving"; "shutdown": the interrupt signal arrived; "closed": Close has returned

vars == <<backend, whitelist, now, rows, cache, sent, pc, req, peerSent, out, retryCount, wh,
          apiKey, phase>>

NoReq == [trxId |-> "", destination |-> ""]
NoOut == [op |-> "none"]
\* The nil error; an error is its text and the status code the text names.
NoErr == [text |-> "", code |-> 0]
\* No payload.
NoPayload == [chatType |-> "", isReply |-> FALSE, originalMessageId |-> 0]
\* The event handler is in no SendWebhook call.
IdleWh == [pc |-> "idle", attempt |-> 0, lastErr |-> NoErr, errs |-> <<>>,
           waits |-> <<>>, payload |-> NoPayload, trxID |-> ""]
\* MAX_MESSAGES_PER_SECOND set to its smallest value that lets a message
\* through; Load stores it in RateLimitConfig and nothing reads it.
MaxMessagesPerSecond == 1
\* OTOMAX_WEBHOOK_RETRY_COUNT when the environment does not set it.
DefaultRetryCount == 3
\* An outcome that names no time.
NoTime == 0 - 1

Init ==
    /\ backend \in Backends
    /\ whitelist = {}
    /\ now = 0
    /\ rows = {}
    /\ cache = {}
    /\ sent = 0
    /\ pc = [p \in Procs |-> "idle"]
    /\ req = [p \in Procs |-> NoReq]
    /\ peerSent = [p \in Procs |-> FALSE]
    /\ out = NoOut
    /\ retryCount = DefaultRetryCount
    /\ wh = IdleWh
    /\ apiKey = ""
    /\ phase = "serving"

\* ------------------------------------------------- TransactionRepository
\* The expiry filter with >= in place of >.
RepoActive_Inclusive(r, t) == r.expiresAt >= t

\* WHERE expires_at > ?  (the row is still tracked at time t)
RepoActive(r, t) == r.expiresAt > t

\* The duplicate check with a horizon that is off by one tick.
GetByTrxID_ShortHorizon(rs, trxId, t) == {r \in rs : r.trxId = trxId /\ r.expiresAt > t + 1}

\* SELECT ... WHERE trx_id = ? AND expires_at > ? LIMIT 1 : the rows the
\* query may return (none: sql.ErrNoRows, i.e. nil).
GetByTrxID(rs, trxId, t) == {r \in rs : r.trxId = trxId /\ RepoActive(r, t)}

\* The lookup by destination with ORDER BY sent_at ASC.
GetByDestination_Oldest(rs, destination, t) ==
    LET match == {r \in rs : r.destination = destination /\ r.expiresAt > t}
    IN {r \in match : \A o \in match : o.sentAt >= r.sentAt}

\* SELECT ... WHERE destination = ? AND expires_at > ? ORDER BY sent_at DESC
\* LIMIT 1 : the rows the query may return (rows with equal sent_at tie).
GetByDestination(rs, destination, t) ==
    LET match == {r \in rs : r.destination = destination /\ RepoActive(r, t)}
    IN {r \in match : \A o \in match : o.sentAt <= r.sentAt}

\* The table without the UNIQUE constraint on trx_id.
UniqueViolation_None(rs, trxId) == FALSE

\* trx_id TEXT NOT NULL UNIQUE : the INSERT is refused when any row, expired
\* or not, carries the TrxID.
UniqueViolation(rs, trxId) == \E r \in rs : r.trxId = trxId

\* INSERT INTO transactions (trx_id, message_id, destination,
\* destination_type, sent_at, expires_at) : the table after a successful
\* Save. The columns id and created_at are filled by SQLite and read by no
\* operation; they are left out.
Save(rs, record) == rs \cup {record}

\* The DELETE with < in place of <=.
ExpiredRows_Strict(rs, t) == {r \in rs : r.expiresAt < t}

\* The DELETE filtering on sent_at instead of expires_at.
ExpiredRows_BySentAt(rs, t) == {r \in rs : r.sentAt <= t}

\* DELETE FROM transactions WHERE expires_at <= ? : the rows deleted.
ExpiredRows(rs, t) == {r \in rs : r.expiresAt <= t}

\* SELECT COUNT(*) FROM transactions WHERE expires_at > ?
Count(rs, t) == Cardinality({r \in rs : RepoActive(r, t)})

\* ------------------------------------------------------------ the clock
Tick ==
    /\ now < MaxTime
    /\ now' = now + 1
    /\ out' = NoOut
    /\ UNCHANGED <<backend, whitelist, apiKey, phase, retryCount, wh, rows, cache, sent, pc, req, peerSent>>

\* The outcome of a ProcessTransaction call: the error text ("" on success)
\* and the text of the error it wraps, the message id returned, and the error
\* of Save that was logged.
Outcome(trxId, err, messageId, saveErr) ==
    [op |-> "ProcessTransaction", trxId |-> trxId, err |-> err, cause |-> "",
     messageId |-> messageId, saveErr |-> saveErr]

\* fmt.Errorf("...: %w", err): an error of ProcessTransaction that wraps the
\* error of ValidateDestination or of SendMessage.
Wrapped(trxId, err, cause) == [Outcome(trxId, err, 0, "") EXCEPT !.cause = cause]

\* The errors of WhatsAppService.SendMessage (part_003 lines 350-361).
SendErrors == {"WhatsApp client not connected", "failed to send message"}

\* Lines 55-57: the duplicate error. Its text names the TrxID and the SentAt of
\* the record found; no TransactionData is returned and the text names no
\* message id.
DuplicateError(trxId, existingTrx) ==
    [op |-> "ProcessTransaction", trxId |-> trxId, err |-> "duplicate transaction",
     cause |-> "", messageId |-> 0, saveErr |-> "", sentAt |-> existingTrx.sentAt]

\* --------------------------- TransactionService.ProcessTransaction (repo)
\* ProcessTransaction validating the destination before it looks the TrxID up.
PT_Check_ValidateFirst(p, trxId, destination, dbFault) ==
    /\ backend = "repo"
    /\ pc[p] = "idle"
    /\ IF ValidateDestination(destination, TRUE) # ""
       THEN /\ out' = Wrapped(trxId, "invalid destination",
                              ValidateDestination(destination, TRUE))
            /\ UNCHANGED <<pc, req>>
       ELSE IF dbFault
       THEN /\ out' = Outcome(trxId, "failed to check existing transaction", 0, "")
            /\ UNCHANGED <<pc, req>>
       ELSE IF GetByTrxID(rows, trxId, now) # {}
       THEN /\ \E existingTrx \in GetByTrxID(rows, trxId, now) :
                   out' = DuplicateError(trxId, existingTrx)
            /\ UNCHANGED <<pc, req>>
       ELSE /\ pc' = [pc EXCEPT ![p] = "send"]
            /\ req' = [req EXCEPT ![p] = [trxId |-> trxId, destination |-> destination]]
            /\ out' = NoOut
    /\ UNCHANGED <<backend, whitelist, apiKey, phase, retryCount, wh, now, rows, cache, sent, peerSent>>

\* ProcessTransaction taking a failed lookup for "no record found".
PT_Check_FaultProceeds(p, trxId, destination, dbFault) ==
    /\ backend = "repo"
    /\ pc[p] = "idle"
    /\ IF ~dbFault /\ GetByTrxID(rows, trxId, now) # {}
       THEN /\ \E existingTrx \in GetByTrxID(rows, trxId, now) :
                   out' = DuplicateError(trxId, existingTrx)
            /\ UNCHANGED <<pc, req>>
       ELSE /\ pc' = [pc EXCEPT ![p] = "send"]
            /\ req' = [req EXCEPT ![p] = [trxId |-> trxId, destination |-> destination]]
            /\ out' = NoOut
    /\ UNCHANGED <<backend, whitelist, apiKey, phase, retryCount, wh, now, rows, cache, sent, peerSent>>

\* Lines 50-57: the duplicate check of a new call. dbFault: the query fails.
PT_Check(p, trxId, destination, dbFault) ==
    /\ backend = "repo"
    /\ pc[p] = "idle"
    /\ IF dbFault
       THEN /\ out' = Outcome(trxId, "failed to check existing transaction", 0, "")
            /\ UNCHANGED <<pc, req>>
       ELSE IF GetByTrxID(rows, trxId, now) # {}
       THEN /\ \E existingTrx \in GetByTrxID(rows, trxId, now) :
                   out' = DuplicateError(trxId, existingTrx)
            /\ UNCHANGED <<pc, req>>
       ELSE /\ pc' = [pc EXCEPT ![p] = "send"]
            /\ req' = [req EXCEPT ![p] = [trxId |-> trxId, destination |-> destination]]
            /\ out' = NoOut
    /\ UNCHANGED <<backend, whitelist, apiKey, phase, retryCount, wh, now, rows, cache, sent, peerSent>>

\* Lines 59-63: ValidateDestination fails.
PT_Invalid(p) ==
    /\ backend = "repo"
    /\ pc[p] = "send"
    /\ ValidateDestination(req[p].destination, FALSE) # ""
    /\ out' = Wrapped(req[p].trxId, "invalid destination",
                      ValidateDestination(req[p].destination, FALSE))
    /\ pc' = [pc EXCEPT ![p] = "idle"]
    /\ req' = [req EXCEPT ![p] = NoReq]
    /\ peerSent' = [peerSent EXCEPT ![p] = FALSE]
    /\ UNCHANGED <<backend, whitelist, apiKey, phase, retryCount, wh, now, rows, cache, sent>>

\* ProcessTransaction saving the record before the send and leaving it behind
\* when SendMessage fails.
PT_SendFailed_Tracked(p) ==
    /\ backend = "repo"
    /\ pc[p] = "send"
    /\ ValidateDestination(req[p].destination, TRUE) = ""
    /\ rows' = IF UniqueViolation(rows, req[p].trxId) THEN rows
               ELSE Save(rows, [trxId |-> req[p].trxId, messageId |-> 0,
                                destination |-> JidOf(req[p].destination),
                                destinationType |-> DestTypeOf(req[p].destination),
                                sentAt |-> now, expiresAt |-> now + TTL])
    /\ \E cause \in SendErrors : out' = Wrapped(req[p].trxId, "failed to send message", cause)
    /\ pc' = [pc EXCEPT ![p] = "idle"]
    /\ req' = [req EXCEPT ![p] = NoReq]
    /\ peerSent' = [peerSent EXCEPT ![p] = FALSE]
    /\ UNCHANGED <<backend, whitelist, apiKey, phase, retryCount, wh, now, cache, sent>>

\* Lines 68-72: the destination is valid and SendMessage fails.
PT_SendFailed(p) ==
    /\ backend = "repo"
    /\ pc[p] = "send"
    /\ ValidateDestination(req[p].destination, TRUE) = ""
    /\ \E cause \in SendErrors : out' = Wrapped(req[p].trxId, "failed to send message", cause)
    /\ pc' = [pc EXCEPT ![p] = "idle"]
    /\ req' = [req EXCEPT ![p] = NoReq]
    /\ peerSent' = [peerSent EXCEPT ![p] = FALSE]
    /\ UNCHANGED <<backend, whitelist, apiKey, phase, retryCount, wh, now, rows, cache, sent>>

\* ProcessTransaction returning the error of Save to its caller.
ReturnAfterSave_Propagates(trxId, messageId, saveErr) ==
    IF saveErr = "" THEN Outcome(trxId, "", messageId, saveErr)
    ELSE Outcome(trxId, "failed to save transaction", 0, saveErr)

\* Lines 84-106: what ProcessTransaction returns after Save, whatever Save
\* answered.
ReturnAfterSave(trxId, messageId, saveErr) == Outcome(trxId, "", messageId, saveErr)

\* Handlers in flight with the TrxID of p learn that a message was sent for it.
NotePeers(p) ==
    [q \in Procs |-> IF q = p THEN FALSE
                     ELSE peerSent[q] \/ (pc[q] = "send" /\ req[q].trxId = req[p].trxId)]

\* ProcessTransaction saving with INSERT OR REPLACE: the record takes the
\* place of the row that carries its TrxID.
PT_Send_Replaces(p, ioFault) ==
    /\ backend = "repo"
    /\ pc[p] = "send"
    /\ ValidateDestination(req[p].destination, TRUE) = ""
    /\ sent < MaxMsgs
    /\ sent' = sent + 1
    /\ LET messageID == sent + 1
           record == [trxId |-> req[p].trxId, messageId |-> messageID,
                      destination |-> JidOf(req[p].destination),
                      destinationType |-> DestTypeOf(req[p].destination),
                      sentAt |-> now, expiresAt |-> now + TTL]
           saveErr == IF ioFault THEN "io" ELSE ""
       IN /\ rows' = IF saveErr = ""
                     THEN Save({r \in rows : r.trxId # record.trxId}, record)
                     ELSE rows
          /\ out' = ReturnAfterSave(req[p].trxId, messageID, saveErr)
    /\ pc' = [pc EXCEPT ![p] = "idle"]
    /\ req' = [req EXCEPT ![p] = NoReq]
    /\ peerSent' = NotePeers(p)
    /\ UNCHANGED <<backend, whitelist, apiKey, phase, retryCount, wh, now, cache>>

\* Lines 68-106: the destination is valid, SendMessage returns a fresh message
\* id, the record is built with SentAt = time.Now() and saved; an error of
\* Save is only logged. ioFault: the INSERT fails for a reason other than the
\* UNIQUE constraint. The send touches no state that another handler or the
\* sweeper reads, so send and Save are one step: every interleaving between
\* them is the interleaving before the send.
PT_Send(p, ioFault) ==
    /\ backend = "repo"
    /\ pc[p] = "send"
    /\ ValidateDestination(req[p].destination, TRUE) = ""
    /\ sent < MaxMsgs
    /\ sent' = sent + 1
    /\ LET messageID == sent + 1
           record == [trxId |-> req[p].trxId, messageId |-> messageID,
                      destination |-> JidOf(req[p].destination),
                      destinationType |-> DestTypeOf(req[p].destination),
                      sentAt |-> now, expiresAt |-> now + TTL]
           saveErr == IF ioFault THEN "io"
                      ELSE IF UniqueViolation(rows, req[p].trxId) THEN "constraint"
                      ELSE ""
       IN /\ rows' = IF saveErr = "" THEN Save(rows, record) ELSE rows
          /\ out' = ReturnAfterSave(req[p].trxId, messageID, saveErr)
    /\ pc' = [pc EXCEPT ![p] = "idle"]
    /\ req' = [req EXCEPT ![p] = NoReq]
    /\ peerSent' = NotePeers(p)
    /\ UNCHANGED <<backend, whitelist, apiKey, phase, retryCount, wh, now, cache>>

\* ------------------------------ TransactionRepository.CleanupExpired
\* The cleanup run by the request path instead of a goroutine of its own: it
\* happens only while a ProcessTransaction call is in flight.
CleanupExpired_OnRequest ==
    /\ backend = "repo"
    /\ \E p \in Procs : pc[p] = "send"
    /\ rows' = rows \ ExpiredRows(rows, now)
    /\ out' = [op |-> "CleanupExpired", count |-> Cardinality(ExpiredRows(rows, now))]
    /\ UNCHANGED <<backend, whitelist, apiKey, phase, retryCount, wh, now, cache, sent, pc, req, peerSent>>

\* One tick of cleanupExpiredPeriodically.
CleanupExpired ==
    /\ backend = "repo"
    /\ rows' = rows \ ExpiredRows(rows, now)
    /\ out' = [op |-> "CleanupExpired", count |-> Cardinality(ExpiredRows(rows, now))]
    /\ UNCHANGED <<backend, whitelist, apiKey, phase, retryCount, wh, now, cache, sent, pc, req, peerSent>>

\* ------------------------------ WhatsAppService.handleIncomingMessage
\* The comparison with the entry left out.
isWhitelisted_Any(wl, jid) == \E whitelisted \in wl : TRUE

\* isWhitelisted: the JID equals one of the configured entries.
isWhitelisted(wl, jid) == \E whitelisted \in wl : whitelisted = jid

\* The payload never taking the StanzaID.
Payload_TrackedOnly(record, quoted, stanza) ==
    [chatType |-> record.destinationType,
     isReply |-> quoted,
     originalMessageId |-> record.messageId]

\* Lines 422-462: the Context of the WebhookPayload built for a tracked chat
\* (WebhookPayload has the fields Event, Sender, Message and Context; the
\* TrxID of the record is no part of it). quoted: the message
\* carries ContextInfo; stanza: the StanzaID in it (0: nil).
Payload(record, quoted, stanza) ==
    [chatType |-> record.destinationType,
     isReply |-> quoted,
     originalMessageId |-> IF quoted /\ stanza # 0 THEN stanza ELSE record.messageId]

\* A message id of a quoted message that this service did not send.
ForeignStanza == MaxMsgs + 7

\* The inbound events: a message of the own account, or a message of someone
\* else without ContextInfo, with a ContextInfo that names no quoted message,
\* or with a ContextInfo that names the StanzaID of a quoted message.
Events ==
    {[chat |-> c, isFromMe |-> TRUE, quoted |-> FALSE, stanza |-> 0] : c \in JIDs}
    \cup {[chat |-> c, isFromMe |-> FALSE, quoted |-> FALSE, stanza |-> 0] : c \in JIDs}
    \cup {[chat |-> c, isFromMe |-> FALSE, quoted |-> TRUE, stanza |-> st] :
             c \in JIDs, st \in {0, ForeignStanza}}

\* handleIncomingMessage querying the store before it checks the whitelist.
Correlate_LookupFirst(evt, dbFault) ==
    /\ backend = "repo"
    /\ LET seen(outcome) == [op |-> "handleIncomingMessage", chat |-> evt.chat, outcome |-> outcome]
       IN IF evt.isFromMe THEN out' = seen("own message")
          ELSE IF dbFault THEN out' = seen("lookup failed")
          ELSE IF GetByDestination(rows, evt.chat, now) = {} THEN out' = seen("not tracked")
          ELSE IF Cardinality(whitelist) > 0 /\ ~isWhitelisted(whitelist, evt.chat)
          THEN out' = seen("not whitelisted")
          ELSE \E trackingRecord \in GetByDestination(rows, evt.chat, now) :
                  out' = [op |-> "handleIncomingMessage", chat |-> evt.chat,
                          outcome |-> "webhook",
                          trxId |-> trackingRecord.trxId,
                          messageId |-> trackingRecord.messageId,
                          payload |-> Payload(trackingRecord, evt.quoted, evt.stanza)]
    /\ UNCHANGED <<backend, whitelist, apiKey, phase, retryCount, now, rows, cache, sent, pc, req, peerSent>>

\* Lines 379-462: what handleIncomingMessage does with one inbound message
\* event before it calls SendWebhook. dbFault: GetByDestination fails.
Correlate(evt, dbFault) ==
    /\ backend = "repo"
    /\ LET seen(outcome) == [op |-> "handleIncomingMessage", chat |-> evt.chat, outcome |-> outcome]
       IN IF evt.isFromMe THEN out' = seen("own message")
          ELSE IF Cardinality(whitelist) > 0 /\ ~isWhitelisted(whitelist, evt.chat)
          THEN out' = seen("not whitelisted")
          ELSE IF dbFault THEN out' = seen("lookup failed")
          ELSE IF GetByDestination(rows, evt.chat, now) = {} THEN out' = seen("not tracked")
          ELSE \E trackingRecord \in GetByDestination(rows, evt.chat, now) :
                  out' = [op |-> "handleIncomingMessage", chat |-> evt.chat,
                          outcome |-> "webhook",
                          trxId |-> trackingRecord.trxId,
                          messageId |-> trackingRecord.messageId,
                          payload |-> Payload(trackingRecord, evt.quoted, evt.stanza)]
    /\ UNCHANGED <<backend, whitelist, apiKey, phase, retryCount, now, rows, cache, sent, pc, req, peerSent>>

\* One inbound message event, handled up to the hand-over of the payload to
\* SendWebhook.
handleIncomingMessage(evt, dbFault) ==
    /\ Correlate(evt, dbFault)
    /\ UNCHANGED wh

\* ------------------------------------------- OtomaxService.SendWebhook
MaxRetry == 2

\* The values of OTOMAX_WEBHOOK_RETRY_COUNT: parseInt accepts every integer.
RetryCounts == (0 - 1)..MaxRetry

\* What one call of send meets: the payload does not marshal, the request
\* cannot be built, the transport fails, or the endpoint answers a status.
Answers ==
    {[kind |-> k, code |-> 0] : k \in {"marshal", "request", "transport"}}
    \cup {[kind |-> "status", code |-> c] : c \in {199, 200, 299, 300, 500}}

\* json.Marshal(payload) in send: the Context object of the request body with
\* its JSON keys (message.go lines 42-47).
Marshal(payload) ==
    [chat_type |-> payload.chatType,
     is_reply |-> payload.isReply,
     original_message_id |-> payload.originalMessageId]

\* send accepting status 300.
send_Upto300(answer) ==
    IF answer.kind = "marshal" THEN [text |-> "failed to marshal payload", code |-> 0]
    ELSE IF answer.kind = "request" THEN [text |-> "failed to create request", code |-> 0]
    ELSE IF answer.kind = "transport" THEN [text |-> "failed to send request", code |-> 0]
    ELSE IF answer.code < 200 \/ answer.code > 300
    THEN [text |-> "unexpected status code", code |-> answer.code]
    ELSE NoErr

\* Lines 175-200: the error of one delivery attempt, nil for a status in
\* 200..299.
send(answer) ==
    IF answer.kind = "marshal" THEN [text |-> "failed to marshal payload", code |-> 0]
    ELSE IF answer.kind = "request" THEN [text |-> "failed to create request", code |-> 0]
    ELSE IF answer.kind = "transport" THEN [text |-> "failed to send request", code |-> 0]
    ELSE IF answer.code < 200 \/ answer.code >= 300
    THEN [text |-> "unexpected status code", code |-> answer.code]
    ELSE NoErr

\* The loop stopping one attempt early.
LoopContinues_Short(attempt, count) == attempt < count

\* Line 142: attempt <= s.config.RetryCount
LoopContinues(attempt, count) == attempt <= count

\* The backoff doubling from two seconds.
Backoff_FromTwo(attempt) == 2 ^ attempt

\* Line 144: math.Pow(2, attempt-1) seconds, slept before the attempt with
\* loop index attempt > 0.
Backoff(attempt) == 2 ^ (attempt - 1)

\* The final error without its cause.
DeliveryFailed_NoCause(count, lastErr) ==
    [failed |-> TRUE, attempts |-> count + 1, cause |-> NoErr]

\* Line 171: "webhook delivery failed after %d attempts: %w" with
\* RetryCount+1 and lastErr.
DeliveryFailed(count, lastErr) ==
    [failed |-> TRUE, attempts |-> count + 1, cause |-> lastErr]

\* return nil
Delivered == [failed |-> FALSE, attempts |-> 0, cause |-> NoErr]

\* What the event handler logs when SendWebhook has returned (part_003 lines
\* 467-480), with the attempts made and the waits slept by the call.
Returned(result, errs, waits, payload) ==
    [op |-> "SendWebhook", result |-> result, errs |-> errs, waits |-> waits,
     payload |-> payload]

\* handleIncomingMessage going on to SendWebhook after a failed lookup, with
\* the empty record.
handleEvent_DeliversOnFault(evt, dbFault) ==
    /\ wh.pc = "idle"
    /\ Correlate(evt, dbFault)
    /\ wh' = IF out'.outcome = "webhook"
             THEN [IdleWh EXCEPT !.pc = "loop", !.payload = out'.payload,
                                 !.trxID = out'.trxId]
             ELSE IF out'.outcome = "lookup failed"
             THEN [IdleWh EXCEPT !.pc = "loop"]
             ELSE wh

\* part_003 lines 367-371 and 464-467: the client hands the event handler one
\* event; handleEvent calls handleIncomingMessage, which calls SendWebhook,
\* each as a plain call. A handler that is in SendWebhook has not returned.
handleEvent(evt, dbFault) ==
    /\ wh.pc = "idle"
    /\ Correlate(evt, dbFault)
    /\ wh' = IF out'.outcome = "webhook"
             THEN [IdleWh EXCEPT !.pc = "loop", !.payload = out'.payload,
                                 !.trxID = out'.trxId]
             ELSE wh

\* Lines 142 and 171: the loop condition fails; SendWebhook returns the error
\* and the handler logs it and returns.
SW_Return ==
    /\ wh.pc = "loop"
    /\ ~LoopContinues(wh.attempt, retryCount)
    /\ out' = Returned(DeliveryFailed(retryCount, wh.lastErr), wh.errs, wh.waits, wh.payload)
    /\ wh' = IdleWh
    /\ UNCHANGED <<backend, whitelist, apiKey, phase, retryCount, now, rows, cache, sent, pc, req, peerSent>>

\* Lines 143-150: a retry starts with time.Sleep(backoff).
SW_Backoff ==
    /\ wh.pc = "loop"
    /\ LoopContinues(wh.attempt, retryCount)
    /\ wh.attempt > 0
    /\ wh' = [wh EXCEPT !.pc = "sleep", !.waits = Append(@, Backoff(wh.attempt))]
    /\ out' = NoOut
    /\ UNCHANGED <<backend, whitelist, apiKey, phase, retryCount, now, rows, cache, sent, pc, req, peerSent>>

\* Lines 152-168: one attempt. On nil SendWebhook returns nil; otherwise the
\* error becomes lastErr and the loop goes on.
SW_Send(answer) ==
    /\ \/ wh.pc = "sleep"
       \/ wh.pc = "loop" /\ LoopContinues(wh.attempt, retryCount) /\ wh.attempt = 0
    /\ LET err == send(answer)
       IN IF err = NoErr
          THEN /\ out' = Returned(Delivered, Append(wh.errs, err), wh.waits, wh.payload)
               /\ wh' = IdleWh
          ELSE /\ out' = NoOut
               /\ wh' = [wh EXCEPT !.pc = "loop", !.attempt = @ + 1, !.lastErr = err,
                                   !.errs = Append(@, err)]
    /\ UNCHANGED <<backend, whitelist, apiKey, phase, retryCount, now, rows, cache, sent, pc, req, peerSent>>

\* ------------------------------------------------------- MessageTracker
\* now.Before(info.ExpiresAt)
MemActive(info, t) == t < info.expiresAt

\* MessageTracker.GetByTrxID: the first active entry with the TrxID that the
\* iteration over the map meets (Go iterates a map in no fixed order).
MemGetByTrxID(c, trxId, t) == {info \in c : info.trxId = trxId /\ MemActive(info, t)}

\* MessageTracker.GetByChat: the first active entry for the chat that the
\* iteration over the map meets.
MemGetByChat(c, chatJID, t) == {info \in c : info.destination = chatJID /\ MemActive(info, t)}

\* MessageTracker.Track: ExpiresAt = time.Now() + ttl, cache[MessageID] = info.
Track(c, info, t) ==
    {e \in c : e.messageId # info.messageId} \cup {[info EXCEPT !.expiresAt = t + TTL]}

\* MessageTracker.CleanupExpired: the entries with now.After(ExpiresAt).
MemExpired(c, t) == {info \in c : t > info.expiresAt}

\* MessageTracker.Count: len(cache).
MemCount(c) == Cardinality(c)

\* ------------------------ TransactionHandler.ForwardTransaction (memory)
\* message.go lines 103-110: the answer to a request whose TrxID the tracker
\* holds. sendErrorResponse writes status, code and a fixed message; the body
\* has no Data, so it names no message id and no sent-at (the message id of
\* the entry found is only logged).
DuplicateResponse(trxId) ==
    [op |-> "ForwardTransaction", trxId |-> trxId, status |-> 409,
     code |-> "ERR_DUPLICATE_TRANSACTION", messageId |-> 0, sentAt |-> NoTime]

\* message.go lines 101-124: the handler's duplicate check on the tracker.
FT_Check(p, trxId, destination) ==
    /\ backend = "memory"
    /\ pc[p] = "idle"
    /\ IF MemGetByTrxID(cache, trxId, now) # {}
       THEN /\ out' = DuplicateResponse(trxId)
            /\ UNCHANGED <<pc, req>>
       ELSE /\ pc' = [pc EXCEPT ![p] = "send"]
            /\ req' = [req EXCEPT ![p] = [trxId |-> trxId, destination |-> destination]]
            /\ out' = NoOut
    /\ UNCHANGED <<backend, whitelist, apiKey, phase, retryCount, wh, now, rows, cache, sent, peerSent>>

\* transaction.go lines 32-36: ValidateDestination fails.
Mem_Invalid(p) ==
    /\ backend = "memory"
    /\ pc[p] = "send"
    /\ ValidateDestination(req[p].destination, FALSE) # ""
    /\ out' = Wrapped(req[p].trxId, "invalid destination",
                      ValidateDestination(req[p].destination, FALSE))
    /\ pc' = [pc EXCEPT ![p] = "idle"]
    /\ req' = [req EXCEPT ![p] = NoReq]
    /\ peerSent' = [peerSent EXCEPT ![p] = FALSE]
    /\ UNCHANGED <<backend, whitelist, apiKey, phase, retryCount, wh, now, rows, cache, sent>>

\* transaction.go lines 41-45: SendMessage fails.
Mem_SendFailed(p) ==
    /\ backend = "memory"
    /\ pc[p] = "send"
    /\ ValidateDestination(req[p].destination, TRUE) = ""
    /\ \E cause \in SendErrors : out' = Wrapped(req[p].trxId, "failed to send message", cause)
    /\ pc' = [pc EXCEPT ![p] = "idle"]
    /\ req' = [req EXCEPT ![p] = NoReq]
    /\ peerSent' = [peerSent EXCEPT ![p] = FALSE]
    /\ UNCHANGED <<backend, whitelist, apiKey, phase, retryCount, wh, now, rows, cache, sent>>

\* transaction.go lines 41-72: SendMessage succeeds and the message is tracked.
\* SentAt is time.Now() at line 53; Track takes the tracker's lock and reads
\* the clock again for ExpiresAt (line 118). lag: the ticks of the clock
\* between the two readings (Next and NextForward take them within one tick).
Mem_Send(p, lag) ==
    /\ backend = "memory"
    /\ pc[p] = "send"
    /\ ValidateDestination(req[p].destination, TRUE) = ""
    /\ sent < MaxMsgs
    /\ now + lag <= MaxTime
    /\ sent' = sent + 1
    /\ now' = now + lag
    /\ LET messageID == sent + 1
           trackingInfo == [trxId |-> req[p].trxId, messageId |-> messageID,
                            destination |-> JidOf(req[p].destination),
                            destinationType |-> DestTypeOf(req[p].destination),
                            sentAt |-> now, expiresAt |-> 0]
       IN /\ cache' = Track(cache, trackingInfo, now + lag)
          /\ out' = Outcome(req[p].trxId, "", messageID, "")
    /\ pc' = [pc EXCEPT ![p] = "idle"]
    /\ req' = [req EXCEPT ![p] = NoReq]
    /\ peerSent' = NotePeers(p)
    /\ UNCHANGED <<backend, whitelist, apiKey, phase, retryCount, wh, rows>>

\* One tick of MessageTracker.cleanupExpiredPeriodically.
MemCleanupExpired ==
    /\ backend = "memory"
    /\ cache' = cache \ MemExpired(cache, now)
    /\ out' = [op |-> "CleanupExpired", count |-> Cardinality(MemExpired(cache, now))]
    /\ UNCHANGED <<backend, whitelist, apiKey, phase, retryCount, wh, now, rows, sent, pc, req, peerSent>>

\* An inbound lookup of the tracker by chat JID.
GetByChat(chatJID) ==
    /\ backend = "memory"
    /\ IF MemGetByChat(cache, chatJID, now) = {}
       THEN out' = [op |-> "GetByChat", chat |-> chatJID, messageId |-> 0]
       ELSE \E info \in MemGetByChat(cache, chatJID, now) :
               out' = [op |-> "GetByChat", chat |-> chatJID, messageId |-> info.messageId]
    /\ UNCHANGED <<backend, whitelist, apiKey, phase, retryCount, wh, now, rows, cache, sent, pc, req, peerSent>>

\* ------------------------------------ the forward route (main.go line 84)
\* The message of the 401 answer with the header required to be present only.
Authenticate_HeaderOnly(configured, header) ==
    IF configured = "" THEN ""
    ELSE IF header = "" THEN "Missing API key"
    ELSE ""

\* AuthMiddleware.Authenticate: "" when next is called, the message of the 401
\* answer otherwise. header: r.Header.Get("X-API-Key").
Authenticate(configured, header) ==
    IF configured = "" THEN ""
    ELSE IF header = "" THEN "Missing API key"
    ELSE IF header # configured THEN "Invalid API key"
    ELSE ""

\* len(descriptions) > 4096 || len(instructions) > 4096
MaxFieldLen == 4096

\* The validation without the length limits.
ValidateRequest_NoLength(q) ==
    IF q.destination = "" \/ q.trxId = "" \/ q.descriptions = 0 \/ q.instructions = 0
    THEN "ERR_MISSING_PARAMETER"
    ELSE ""

\* ForwardTransaction lines 84-99: the error code for the query parameters,
\* "" when they pass. descriptions and instructions are given by their len.
ValidateRequest(q) ==
    IF q.destination = "" \/ q.trxId = "" \/ q.descriptions = 0 \/ q.instructions = 0
    THEN "ERR_MISSING_PARAMETER"
    ELSE IF q.descriptions > MaxFieldLen \/ q.instructions > MaxFieldLen
    THEN "ERR_INVALID_PARAMETER"
    ELSE ""

\* sendErrorResponse of the middleware and of the handler: status, code and
\* message, no data.
Rejected(trxId, status, code, message) ==
    [op |-> "ForwardTransaction", trxId |-> trxId, status |-> status, code |-> code,
     messageId |-> 0, sentAt |-> NoTime, message |-> message]

\* The values of the X-API-Key header: absent, the key, the key in other case.
Headers == {"", "secret", "Secret"}

\* The query strings: well-formed ones, one with each parameter missing, and
\* ones with descriptions or instructions one byte over the limit.
Requests ==
    LET full(t, d) == [destination |-> d, trxId |-> t, descriptions |-> 1,
                       instructions |-> MaxFieldLen]
        base == full("TRX1", "g1@g.us")
    IN {full(t, d) : t \in TrxIDs, d \in Destinations}
       \cup {[base EXCEPT !.destination = ""], [base EXCEPT !.trxId = ""],
             [base EXCEPT !.descriptions = 0], [base EXCEPT !.instructions = 0],
             [base EXCEPT !.descriptions = MaxFieldLen + 1],
             [base EXCEPT !.instructions = MaxFieldLen + 1]}

\* One request to /api/v1/forward up to the call of ProcessTransaction: the
\* middleware, the validation of the parameters, the duplicate check.
Forward(p, header, q) ==
    /\ backend = "memory"
    /\ pc[p] = "idle"
    /\ IF Authenticate(apiKey, header) # ""
       THEN /\ out' = Rejected(q.trxId, 401, "ERR_UNAUTHORIZED", Authenticate(apiKey, header))
            /\ UNCHANGED <<backend, whitelist, apiKey, phase, retryCount, wh, now, rows, cache, sent,
                           pc, req, peerSent>>
       ELSE IF ValidateRequest(q) # ""
       THEN /\ out' = Rejected(q.trxId, 400, ValidateRequest(q), "")
            /\ UNCHANGED <<backend, whitelist, apiKey, phase, retryCount, wh, now, rows, cache, sent,
                           pc, req, peerSent>>
       ELSE FT_Check(p, q.trxId, q.destination)

\* ---------------------- TransactionHandler: the answer to the HTTP caller
\* The error texts that contain a keyword of mapErrorCode without being it.
Substrings ==
    {<<"not connected", "WhatsApp client not connected">>,
     <<"group not found", "group not found or bot not a member">>,
     <<"not registered on WhatsApp", "phone number not registered on WhatsApp">>,
     <<"failed to send", "failed to send message">>}

\* contains(s, substr), an error text being the sequence of its phrases.
contains(errMsg, substr) ==
    \E i \in 1..Len(errMsg) : errMsg[i] = substr \/ <<substr, errMsg[i]>> \in Substrings

\* mapErrorCode: the first keyword found in the error text decides.
mapErrorCode(errMsg) ==
    IF contains(errMsg, "invalid destination") THEN "ERR_INVALID_DESTINATION"
    ELSE IF contains(errMsg, "not connected") THEN "ERR_WHATSAPP_NOT_CONNECTED"
    ELSE IF contains(errMsg, "group not found") THEN "ERR_GROUP_NOT_FOUND"
    ELSE IF contains(errMsg, "not registered on WhatsApp") THEN "ERR_DESTINATION_NOT_ON_WHATSAPP"
    ELSE IF contains(errMsg, "failed to send") THEN "ERR_MESSAGE_SEND_FAILED"
    ELSE "ERR_INTERNAL_SERVER"

\* ForwardTransaction lines 102-138: the status and error code the caller
\* receives for an outcome: the pre-check answers by itself, an error of
\* ProcessTransaction is answered with mapErrorCode and status 500, a success
\* with status 200.
ForwardResponse(o) ==
    IF o.op = "ForwardTransaction" THEN [status |-> o.status, code |-> o.code]
    ELSE IF o.err = "" THEN [status |-> 200, code |-> ""]
    ELSE [status |-> 500, code |-> mapErrorCode(<<o.err, o.cause>>)]

Next ==
    \/ Tick
    \/ \E p \in Procs, t \in TrxIDs, d \in Destinations, f \in BOOLEAN : PT_Check(p, t, d, f)
    \/ \E p \in Procs : PT_Invalid(p)
    \/ \E p \in Procs : PT_SendFailed(p)
    \/ \E p \in Procs, f \in BOOLEAN : PT_Send(p, f)
    \/ CleanupExpired
    \/ \E evt \in Events, f \in BOOLEAN : handleIncomingMessage(evt, f)
    \/ \E p \in Procs, t \in TrxIDs, d \in Destinations : FT_Check(p, t, d)
    \/ \E p \in Procs : Mem_Invalid(p)
    \/ \E p \in Procs : Mem_SendFailed(p)
    \/ \E p \in Procs : Mem_Send(p, 0)
    \/ MemCleanupExpired
    \/ \E c \in JIDs : GetByChat(c)

Spec == Init /\ [][Next]_vars

\* --------------------------------------------------- the forward route
\* The in-memory service behind the API-key middleware, with the key set or
\* not; one client sends requests of every shape.
InitForward ==
    /\ backend = "memory"
    /\ whitelist = {}
    /\ now = 0
    /\ rows = {}
    /\ cache = {}
    /\ sent = 0
    /\ pc = [p \in Procs |-> "idle"]
    /\ req = [p \in Procs |-> NoReq]
    /\ peerSent = [p \in Procs |-> FALSE]
    /\ out = NoOut
    /\ retryCount = DefaultRetryCount
    /\ wh = IdleWh
    /\ apiKey \in {"", "secret"}
    /\ phase = "serving"

NextForward ==
    \/ Tick
    \/ \E header \in Headers, q \in Requests : Forward("h1", header, q)
    \/ Mem_Invalid("h1")
    \/ Mem_SendFailed("h1")
    \/ Mem_Send("h1", 0)
    \/ MemCleanupExpired

SpecForward == InitForward /\ [][NextForward]_vars

\* ------------------------------------------------ the webhook delivery
\* The service after one transaction was forwarded to the group, with any
\* configured retry count; inbound events arrive and are delivered.
InitWebhook ==
    /\ backend = "repo"
    /\ whitelist = {}
    /\ now = 0
    /\ rows = {[trxId |-> "TRX1", messageId |-> 1, destination |-> "g1@g.us",
                destinationType |-> "group", sentAt |-> 0, expiresAt |-> TTL]}
    /\ cache = {}
    /\ sent = 1
    /\ pc = [p \in Procs |-> "idle"]
    /\ req = [p \in Procs |-> NoReq]
    /\ peerSent = [p \in Procs |-> FALSE]
    /\ out = NoOut
    /\ retryCount \in RetryCounts
    /\ wh = IdleWh
    /\ apiKey = ""
    /\ phase = "serving"

NextWebhook ==
    \/ \E evt \in Events, f \in BOOLEAN : handleEvent(evt, f)
    \/ SW_Backoff
    \/ \E answer \in Answers : SW_Send(answer)
    \/ SW_Return

SpecWebhook == InitWebhook /\ [][NextWebhook]_vars

\* ------------------------------------------------- the inbound filter
\* The values of WEBHOOK_WHITELIST_JIDS: unset, the group, or the phone number
\* without the server part of its JID.
Whitelists == {{}, {"g1@g.us"}, {"6281234567890"}}

\* The service with any configured whitelist and no retry; one request handler
\* forwards transactions while inbound events arrive and are delivered to an
\* endpoint that answers 200 or cannot be reached.
InitInbound ==
    /\ backend = "repo"
    /\ whitelist \in Whitelists
    /\ now = 0
    /\ rows = {}
    /\ cache = {}
    /\ sent = 0
    /\ pc = [p \in Procs |-> "idle"]
    /\ req = [p \in Procs |-> NoReq]
    /\ peerSent = [p \in Procs |-> FALSE]
    /\ out = NoOut
    /\ retryCount = 0
    /\ wh = IdleWh
    /\ apiKey = ""
    /\ phase = "serving"

NextInbound ==
    \/ Tick
    \/ \E t \in TrxIDs, d \in Destinations : PT_Check("h1", t, d, FALSE)
    \/ PT_Send("h1", FALSE)
    \/ \E evt \in Events, f \in BOOLEAN : handleEvent(evt, f)
    \/ \E answer \in {a \in Answers : a.kind = "transport" \/ a.code = 200} : SW_Send(answer)
    \/ SW_Return

SpecInbound == InitInbound /\ [][NextInbound]_vars

\* ------------------------------------------------ one client, any request
\* A destination that is no group JID and that normalizePhoneNumber rejects:
\* five digits, seven after the 62 prefix, fewer than eleven.
BadDestination == "12345"

\* The destinations a client may put into a request.
RequestDestinations == Destinations \cup {BadDestination}

\* Either generation of the service right after construction; one client
\* forwards transactions with any destination, valid or not, while the store
\* may fail, inbound messages are looked up and the sweeper of the generation
\* runs.
InitService ==
    /\ backend \in Backends
    /\ whitelist = {}
    /\ now = 0
    /\ rows = {}
    /\ cache = {}
    /\ sent = 0
    /\ pc = [p \in Procs |-> "idle"]
    /\ req = [p \in Procs |-> NoReq]
    /\ peerSent = [p \in Procs |-> FALSE]
    /\ out = NoOut
    /\ retryCount = DefaultRetryCount
    /\ wh = IdleWh
    /\ apiKey = ""
    /\ phase = "serving"

NextService ==
    \/ Tick
    \/ \E t \in TrxIDs, d \in RequestDestinations, f \in BOOLEAN : PT_Check("h1", t, d, f)
    \/ PT_Invalid("h1")
    \/ PT_SendFailed("h1")
    \/ \E f \in BOOLEAN : PT_Send("h1", f)
    \/ CleanupExpired
    \/ \E evt \in Events, f \in BOOLEAN : handleIncomingMessage(evt, f)
    \/ \E t \in TrxIDs, d \in RequestDestinations : FT_Check("h1", t, d)
    \/ Mem_Invalid("h1")
    \/ Mem_SendFailed("h1")
    \/ \E lag \in 0..MaxLag : Mem_Send("h1", lag)
    \/ MemCleanupExpired

SpecService == InitService /\ [][NextService]_vars

\* The same service with its sweeper scheduled fairly: NewTransactionService
\* starts cleanupExpiredPeriodically as a goroutine, whose ticker fires every
\* hour for as long as the process runs, whatever the request handlers do.
SpecSweeper == InitService /\ [][NextService]_vars /\ WF_vars(CleanupExpired)

\* ------------------------------------------------------------ shutdown
\* main.go lines 113-117: the interrupt signal arrives and main starts the
\* shutdown of the HTTP server. It cancels no context of the services and
\* signals nothing to their goroutines.
Interrupt ==
    /\ phase = "serving"
    /\ phase' = "shutdown"
    /\ out' = NoOut
    /\ UNCHANGED <<backend, whitelist, apiKey, retryCount, wh, now, rows, cache, sent, pc, req,
                   peerSent>>

\* TransactionService.Close: repo.Close(), i.e. db.Close(); nothing else.
Close ==
    /\ backend = "repo"
    /\ phase # "closed"
    /\ phase' = "closed"
    /\ out' = [op |-> "Close"]
    /\ UNCHANGED <<backend, whitelist, apiKey, retryCount, wh, now, rows, cache, sent, pc, req,
                   peerSent>>

\* One round of the loop of cleanupExpiredPeriodically: the ticker fires and
\* the goroutine calls repo.CleanupExpired. The loop has no exit; on a closed
\* database the DELETE fails, the error is logged and the loop goes on.
cleanupExpiredPeriodically ==
    IF phase = "closed"
    THEN /\ backend = "repo"
         /\ out' = [op |-> "CleanupExpired", count |-> 0, err |-> "sql: database is closed"]
         /\ UNCHANGED <<backend, whitelist, apiKey, phase, retryCount, wh, now, rows, cache, sent,
                        pc, req, peerSent>>
    ELSE CleanupExpired

\* The service after one transaction was forwarded to the group, configured
\* with one retry; inbound events arrive and are delivered and the sweeper
\* runs, while the process is interrupted and the service is closed.
InitShutdown ==
    /\ backend = "repo"
    /\ whitelist = {}
    /\ now = 0
    /\ rows = {[trxId |-> "TRX1", messageId |-> 1, destination |-> "g1@g.us",
                destinationType |-> "group", sentAt |-> 0, expiresAt |-> TTL]}
    /\ cache = {}
    /\ sent = 1
    /\ pc = [p \in Procs |-> "idle"]
    /\ req = [p \in Procs |-> NoReq]
    /\ peerSent = [p \in Procs |-> FALSE]
    /\ out = NoOut
    /\ retryCount = 1
    /\ wh = IdleWh
    /\ apiKey = ""
    /\ phase = "serving"

\* On a closed database every query fails, the lookup of an event included.
NextShutdown ==
    \/ Tick
    \/ Interrupt
    \/ Close
    \/ cleanupExpiredPeriodically
    \/ \E evt \in Events, f \in BOOLEAN : (phase = "closed" => f) /\ handleEvent(evt, f)
    \/ SW_Backoff
    \/ \E answer \in Answers : SW_Send(answer)
    \/ SW_Return

SpecShutdown == InitShutdown /\ [][NextShutdown]_vars

\* ================================================================ claims
IsOutcome == out.op = "ProcessTransaction"

ActiveRows(trxId) == {r \in rows : r.trxId = trxId /\ r.expiresAt > now}

\* C1: of concurrent ProcessTransaction calls with the same TrxID exactly one
\* sends a message: no call sends once a call concurrent with it has sent a
\* message for the same TrxID.
C1_ExactlyOneSends ==
    [][\A p \in Procs :
          (backend = "repo" /\ pc[p] = "send" /\ pc'[p] = "idle" /\ sent' = sent + 1)
              => ~peerSent[p]]_vars

\* C2: a ProcessTransaction call issued while a saved record with its TrxID
\* has not reached expiresAt returns the duplicate error and sends nothing,
\* whatever destination it names.
C2_DuplicateRejected ==
    [][(backend = "repo" /\ now' = now /\ out'.op \in {"ProcessTransaction", "none"}) =>
       \A p \in Procs, t \in TrxIDs, d \in Destinations :
          (pc[p] = "idle" /\ ActiveRows(t) # {} /\ PT_Check(p, t, d, FALSE))
              => /\ out'.op = "ProcessTransaction"
                 /\ out'.trxId = t
                 /\ out'.err = "duplicate transaction"
                 /\ out'.messageId = 0
                 /\ sent' = sent
                 /\ rows' = rows
                 /\ pc'[p] = "idle"]_vars

\* C2 witness: a call was rejected as a duplicate of a record still tracked.
C2_Witness ==
    /\ IsOutcome
    /\ out.err = "duplicate transaction"
    /\ ActiveRows(out.trxId) # {}
    /\ sent = 1

\* C3: at most one row per TrxID has expiresAt > now, and no step replaces or
\* removes a row that has expiresAt > now.
C3_OneActivePerTrx ==
    /\ [](\A t \in TrxIDs : Cardinality(ActiveRows(t)) <= 1)
    /\ [][\A r \in rows : r.expiresAt > now => r \in rows']_vars

\* C3 witness: Save was refused for a TrxID whose record is still active, and
\* that record is still the one of the earlier message.
C3_Witness ==
    /\ IsOutcome
    /\ out.saveErr = "constraint"
    /\ \E r \in ActiveRows(out.trxId) : r.messageId # out.messageId

\* C4: when the only record of a TrxID has expired, swept or not, a new
\* ProcessTransaction with that TrxID has its record saved and GetByTrxID
\* returns the new record with the new message id.
C4_ReusableAfterExpiry ==
    [][\A p \in Procs :
          (/\ backend = "repo"
           /\ pc[p] = "send"
           /\ \E r \in rows : r.trxId = req[p].trxId
           /\ \A r \in rows : r.trxId = req[p].trxId => r.expiresAt <= now
           /\ PT_Send(p, FALSE))
              => /\ out'.err = ""
                 /\ \E r \in GetByTrxID(rows', req[p].trxId, now) :
                        r.messageId = out'.messageId]_vars

\* C5 as stated: a record is returned by GetByTrxID and by GetByDestination at
\* every time < sentAt + TTL and by neither at any time >= sentAt + TTL.
C5_ReturnedUntilExpiry ==
    \A r \in rows :
        /\ now < r.sentAt + TTL =>
              /\ GetByTrxID(rows, r.trxId, now) = {r}
              /\ GetByDestination(rows, r.destination, now) = {r}
        /\ now >= r.sentAt + TTL =>
              /\ r \notin GetByTrxID(rows, r.trxId, now)
              /\ r \notin GetByDestination(rows, r.destination, now)

\* C5 amended: at every time < sentAt + TTL GetByTrxID returns the record, and
\* GetByDestination returns it unless another record of the same destination
\* that has not expired was sent later (with equal sentAt either may be
\* returned); at no time >= sentAt + TTL does either return it, swept or not.
C5_ExpiryAtReadTime ==
    \A r \in rows :
        /\ now < r.sentAt + TTL =>
              /\ GetByTrxID(rows, r.trxId, now) = {r}
              /\ \/ r \in GetByDestination(rows, r.destination, now)
                 \/ \E o \in rows : /\ o.destination = r.destination
                                    /\ now < o.sentAt + TTL
                                    /\ o.sentAt > r.sentAt
        /\ now >= r.sentAt + TTL =>
              /\ r \notin GetByTrxID(rows, r.trxId, now)
              /\ r \notin GetByDestination(rows, r.destination, now)

\* C5 witness: an inbound lookup found nothing for a chat whose only record
\* has expired and is still in the table.
C5_Witness ==
    /\ out.op = "handleIncomingMessage"
    /\ out.outcome = "not tracked"
    /\ \E r \in rows : r.destination = out.chat /\ now >= r.sentAt + TTL

\* C6: no step, of the repository or of the tracker, removes a record whose
\* expiresAt > now.
C6_SweeperSafety ==
    [][/\ \A r \in rows \ rows' : ~(r.expiresAt > now)
       /\ \A e \in cache \ cache' : ~(e.expiresAt > now)]_vars

\* C6 witness: CleanupExpired removed a row and a row with expiresAt > now is
\* still in the table.
C6_Witness ==
    /\ backend = "repo"
    /\ out.op = "CleanupExpired"
    /\ out.count = 1
    /\ \E r \in rows : r.expiresAt > now

\* C7: CleanupExpired deletes exactly the rows with expiresAt <= now, returns
\* their number, and leaves no row with expiresAt <= now.
C7_CleanupExact ==
    [][CleanupExpired =>
          /\ rows' = {r \in rows : r.expiresAt > now}
          /\ out'.count = Cardinality(rows) - Cardinality(rows')
          /\ ~ \E r \in rows' : r.expiresAt <= now]_vars

\* C7 witness: CleanupExpired removed two rows, one of them expiring at this
\* very instant.
C7_Witness ==
    /\ backend = "repo"
    /\ out.op = "CleanupExpired"
    /\ out.count = 2
    /\ rows = {}
    /\ sent = 2
    /\ now = TTL + 1

\* C8: an inbound event on a chat is correlated with a record of that chat
\* that has not expired and whose sentAt is greatest among those, using its
\* TrxID and message id; it goes uncorrelated only if the chat has no record
\* that has not expired.
C8_MostRecentWins ==
    out.op = "handleIncomingMessage" =>
        /\ out.outcome = "webhook" =>
              \E r \in rows :
                  /\ r.destination = out.chat
                  /\ r.expiresAt > now
                  /\ \A o \in rows : (o.destination = out.chat /\ o.expiresAt > now)
                                        => o.sentAt <= r.sentAt
                  /\ out.trxId = r.trxId
                  /\ out.messageId = r.messageId
        /\ out.outcome = "not tracked" =>
              ~ \E r \in rows : r.destination = out.chat /\ r.expiresAt > now

\* C8 witness: two records of the chat are active, sent at different times,
\* and the event was correlated with the later one.
C8_Witness ==
    /\ out.op = "handleIncomingMessage"
    /\ out.outcome = "webhook"
    /\ \E r, o \in rows :
          /\ r.destination = out.chat /\ o.destination = out.chat
          /\ r.expiresAt > now /\ o.expiresAt > now
          /\ o.sentAt < r.sentAt
          /\ out.messageId = r.messageId

\* C9: a ProcessTransaction whose send fails writes no record, returns the
\* send error and not the duplicate error, and leaves the duplicate check of
\* its TrxID answering as before.
C9_SendFailureLeavesNoRecord ==
    [][\A p \in Procs :
          (pc[p] = "send" /\ pc'[p] = "idle" /\ PT_SendFailed(p))
              => /\ rows' = rows
                 /\ sent' = sent
                 /\ out'.err = "failed to send message"
                 /\ out'.err # "duplicate transaction"
                 /\ GetByTrxID(rows', req[p].trxId, now) = GetByTrxID(rows, req[p].trxId, now)]_vars

\* C9 witness: a send failed for a TrxID that a following call would not find.
C9_Witness ==
    /\ IsOutcome
    /\ out.err = "failed to send message"
    /\ GetByTrxID(rows, out.trxId, now) = {}
    /\ \A r \in rows : r.trxId # out.trxId

\* C10: every step in which WhatsApp accepts a message ends the call with
\* success and the id of that message, whether or not Save succeeded.
C10_SentIsNeverFailed ==
    [][sent' # sent =>
          /\ out'.op = "ProcessTransaction"
          /\ out'.err = ""
          /\ out'.messageId = sent']_vars

\* C10 witness: a call returned success with its message id although Save
\* failed.
C10_Witness ==
    /\ IsOutcome
    /\ out.err = ""
    /\ out.saveErr = "io"
    /\ out.messageId = sent

\* A forward request was just rejected because its TrxID is still tracked.
IsDuplicateRejection ==
    \/ out.op = "ProcessTransaction" /\ out.err = "duplicate transaction"
    \/ out.op = "ForwardTransaction" /\ out.code = "ERR_DUPLICATE_TRANSACTION"

\* The records of the store in use that are tracked under the TrxID.
ActiveRecords(trxId) ==
    IF backend = "repo" THEN GetByTrxID(rows, trxId, now) ELSE MemGetByTrxID(cache, trxId, now)

\* C11: the outcome of a request rejected as a duplicate carries the message
\* handle and the sentAt of the record tracked under its TrxID.
C11_DuplicateCarriesRecord ==
    IsDuplicateRejection
        => \E existing \in ActiveRecords(out.trxId) :
              out.messageId = existing.messageId /\ out.sentAt = existing.sentAt

\* C12: every forward request rejected as a duplicate is answered with status
\* 409 and ERR_DUPLICATE_TRANSACTION, whichever check detected it.
C12_DuplicateIsConflict ==
    IsDuplicateRejection
        => ForwardResponse(out) = [status |-> 409, code |-> "ERR_DUPLICATE_TRANSACTION"]

\* SendWebhook has just returned to the event handler.
HasReturned == out.op = "SendWebhook"

AllFailed(errs) == \A i \in 1..Len(errs) : errs[i] # NoErr

\* C13: SendWebhook makes at most retryCount + 1 attempts; it returns nil at
\* the first attempt that succeeds, every attempt before it having failed, and
\* returns an error exactly when retryCount + 1 attempts were made and all of
\* them failed.
C13_BoundedAttempts ==
    /\ Len(wh.errs) <= retryCount + 1
    /\ AllFailed(wh.errs)
    /\ HasReturned =>
          /\ Len(out.errs) <= retryCount + 1
          /\ ~out.result.failed =>
                /\ Len(out.errs) >= 1
                /\ out.errs[Len(out.errs)] = NoErr
                /\ AllFailed(SubSeq(out.errs, 1, Len(out.errs) - 1))
          /\ out.result.failed <=> (Len(out.errs) = retryCount + 1 /\ AllFailed(out.errs))

\* C13 witness: a call returned nil on its second attempt with a retry left.
C13_Witness ==
    /\ HasReturned
    /\ ~out.result.failed
    /\ Len(out.errs) = 2
    /\ retryCount = 2

\* The waits of a run are 1s, 2s, 4s, ... in this order.
Doubling(waits) == \A i \in 1..Len(waits) : waits[i] = 2 ^ (i - 1)

\* C14: the wait before attempt i+1 is 2^(i-1) seconds after the i-th failed
\* attempt, one wait per failed attempt that is followed by another attempt,
\* and no wait before the first attempt.
C14_Backoff ==
    /\ Doubling(wh.waits)
    /\ wh.pc = "sleep" => (Len(wh.errs) >= 1 /\ Len(wh.waits) = Len(wh.errs))
    /\ wh.pc = "loop" =>
          Len(wh.waits) = (IF Len(wh.errs) = 0 THEN 0 ELSE Len(wh.errs) - 1)
    /\ HasReturned =>
          /\ Doubling(out.waits)
          /\ Len(out.waits) = (IF Len(out.errs) = 0 THEN 0 ELSE Len(out.errs) - 1)

\* C14 witness: a run that failed twice is in its second wait, of 2 seconds.
C14_Witness ==
    /\ wh.pc = "sleep"
    /\ Len(wh.errs) = 2
    /\ wh.waits = <<1, 2>>

\* C15: an attempt succeeds exactly when the endpoint answers a status in
\* 200..299; every other answer is a failed attempt that is recorded as the
\* last error.
C15_SuccessIs2xx ==
    [][\A answer \in Answers :
          SW_Send(answer) =>
              LET ok == answer.kind = "status" /\ answer.code >= 200 /\ answer.code <= 299
              IN /\ ok <=> (out'.op = "SendWebhook" /\ ~out'.result.failed)
                 /\ ~ok <=> (wh'.pc = "loop" /\ wh'.lastErr # NoErr
                              /\ Len(wh'.errs) = Len(wh.errs) + 1)]_vars

\* C15 witness: an attempt answered with status 300 counted as failed.
C15_Witness ==
    /\ wh.pc = "loop"
    /\ wh.lastErr = [text |-> "unexpected status code", code |-> 300]

\* C16: when every attempt failed, the error returned wraps the error of the
\* last attempt, the handler keeps nothing of the payload, and the handler is
\* ready for the next inbound event.
C16_FailureIsFinal ==
    /\ wh.pc = "idle" => wh = IdleWh
    /\ (HasReturned /\ out.result.failed) =>
          /\ out.result.attempts = retryCount + 1
          /\ Len(out.errs) >= 1 => out.result.cause = out.errs[Len(out.errs)]
          /\ wh = IdleWh
          /\ \A evt \in Events : ENABLED handleEvent(evt, FALSE)

\* C16 witness: a call gave up after three attempts that failed differently.
C16_Witness ==
    /\ HasReturned
    /\ out.result.failed
    /\ Len(out.errs) = 3
    /\ out.errs[1] # out.errs[3]
    /\ out.errs[2] # out.errs[3]

\* C17: while the SendWebhook call for one inbound event is sleeping or
\* retrying, the handling of the next inbound event can start.
C17_SleepBlocksNothing ==
    (wh.pc \in {"sleep", "loop"} /\ Len(wh.errs) >= 1)
        => \E evt \in Events : ENABLED handleEvent(evt, FALSE)

\* The chat address passes the whitelist filter.
Passes(jid) == whitelist = {} \/ jid \in whitelist

\* C18: with an empty whitelist every chat address passes the inbound filter;
\* with a non-empty one an address passes exactly when it equals an entry.
C18_WhitelistDefaultOpen ==
    (out.op = "handleIncomingMessage" /\ out.outcome # "own message")
        => (out.outcome = "not whitelisted" <=> ~Passes(out.chat))

\* C18 witness: the phone chat was rejected by a whitelist that holds its
\* number without the server part.
C18_Witness ==
    /\ whitelist = {"6281234567890"}
    /\ out.op = "handleIncomingMessage"
    /\ out.chat = "6281234567890@s.whatsapp.net"
    /\ out.outcome = "not whitelisted"

\* C19: a delivery starts for an inbound event only if the event is not of the
\* own account, its chat passes the whitelist and the store holds an active
\* record for the chat; any other event starts none, and an event that fails
\* the whitelist is discarded before the store is queried.
C19_DeliveryPreconditions ==
    [][\A evt \in Events, f \in BOOLEAN :
          (out'.op = "handleIncomingMessage" /\ handleEvent(evt, f)) =>
              LET eligible == /\ ~evt.isFromMe
                              /\ Passes(evt.chat)
                              /\ GetByDestination(rows, evt.chat, now) # {}
              IN /\ (wh'.pc # "idle" \/ out'.outcome = "webhook") => eligible
                 /\ ~eligible => wh' = IdleWh
                 /\ (~evt.isFromMe /\ ~Passes(evt.chat)) => out'.outcome = "not whitelisted"]_vars

\* C19 witness: an event of a tracked chat was discarded by the whitelist.
C19_Witness ==
    /\ out.op = "handleIncomingMessage"
    /\ out.outcome = "not whitelisted"
    /\ GetByDestination(rows, out.chat, now) # {}
    /\ wh = IdleWh

\* C20: the payload's originalMessageId is the id of the quoted message when
\* the inbound message carries one, and the message handle of the correlated
\* record otherwise.
C20_OriginalMessageId ==
    [][\A evt \in Events :
          (out'.op = "handleIncomingMessage" /\ handleEvent(evt, FALSE)
              /\ out'.outcome = "webhook")
              => /\ out'.payload.originalMessageId =
                        (IF evt.stanza # 0 THEN evt.stanza ELSE out'.messageId)
                 /\ wh'.payload = out'.payload
                 /\ \E r \in GetByDestination(rows, evt.chat, now) :
                        r.messageId = out'.messageId]_vars

\* C20 witness: a delivery is under way whose payload names the quoted message,
\* not the tracked one.
C20_Witness ==
    /\ wh.pc = "loop"
    /\ wh.payload.originalMessageId = ForeignStanza
    /\ out.op = "handleIncomingMessage"
    /\ out.messageId # ForeignStanza

\* An inbound event was just correlated and its payload handed to SendWebhook.
IsCorrelated == out.op = "handleIncomingMessage" /\ out.outcome = "webhook"

\* C21: the payload's isReply is true exactly when the inbound message names
\* a quoted message.
C21_IsReplyIffQuoted ==
    [][\A evt \in Events :
          (out'.op = "handleIncomingMessage" /\ handleEvent(evt, FALSE)
              /\ out'.outcome = "webhook")
              => (Marshal(out'.payload).is_reply <=> evt.stanza # 0)]_vars

\* C22: the body delivered for a correlated event carries the TrxID of the
\* tracking record and the message handle of that record.
C22_PayloadCarriesRecord ==
    IsCorrelated =>
        LET body == Marshal(out.payload)
        IN /\ "trxid" \in DOMAIN body
           /\ body.trxid = out.trxId
           /\ body.original_message_id = out.messageId

\* The tracked messages that were sent in the current instant.
SentNow == {r \in rows \cup cache : r.sentAt = now}

\* C24: at most MAX_MESSAGES_PER_SECOND messages are sent within one second:
\* the messages sent in one instant never exceed the configured limit.
C24_RateLimited == Cardinality(SentNow) <= MaxMessagesPerSecond

\* C25: a failed forward request is reported with the documented code of its
\* cause: group not found, number not on WhatsApp, client not connected, or
\* send failure.
C25_DocumentedCodes ==
    (out.op = "ProcessTransaction" /\ out.err # "") =>
        LET code == ForwardResponse(out).code
        IN /\ out.cause = "group not found or bot not a member"
                 => code = "ERR_GROUP_NOT_FOUND"
           /\ out.cause = "phone number not registered on WhatsApp"
                 => code = "ERR_DESTINATION_NOT_ON_WHATSAPP"
           /\ out.cause = "WhatsApp client not connected"
                 => code = "ERR_WHATSAPP_NOT_CONNECTED"
           /\ (out.err = "failed to send message" /\ out.cause = "failed to send message")
                 => code = "ERR_MESSAGE_SEND_FAILED"

\* C27: Count of either store is the number of stored records that have not
\* expired, records that expired and were not purged yet left out.
C27_CountIsActive ==
    /\ backend = "repo" => Count(rows, now) = Cardinality({r \in rows : r.expiresAt > now})
    /\ backend = "memory" => MemCount(cache) = Cardinality({e \in cache : e.expiresAt > now})

\* C28: when several entries of the in-memory tracker that have not expired
\* share the destination, GetByChat returns the one with the greatest SentAt.
C28_MemMostRecent ==
    (out.op = "GetByChat" /\ out.messageId # 0) =>
        \E info \in MemGetByChat(cache, out.chat, now) :
            /\ info.messageId = out.messageId
            /\ \A o \in MemGetByChat(cache, out.chat, now) : o.sentAt <= info.sentAt

\* C29: with the in-memory tracker the cache never holds two entries of one
\* TrxID that have not expired, and no request sends a message once a request
\* concurrent with it has sent one for the same TrxID.
C29_MemOnePerTrx ==
    /\ [](backend = "memory" =>
             \A t \in TrxIDs : Cardinality(MemGetByTrxID(cache, t, now)) <= 1)
    /\ [][\A p \in Procs :
             (backend = "memory" /\ pc[p] = "send" /\ pc'[p] = "idle" /\ sent' = sent + 1)
                 => ~peerSent[p]]_vars

\* C30: when ProcessTransaction returns success with a message id and Save met
\* no I/O fault, the record tracked for the TrxID has that message id.
C30_SuccessNamesTrackedHandle ==
    (backend = "repo" /\ out.op = "ProcessTransaction" /\ out.err = ""
        /\ out.saveErr # "io")
        => \E r \in GetByTrxID(rows, out.trxId, now) : r.messageId = out.messageId

\* A query string that misses a parameter or exceeds a length limit.
Malformed(q) ==
    \/ q.destination = "" \/ q.trxId = "" \/ q.descriptions = 0 \/ q.instructions = 0
    \/ q.descriptions > MaxFieldLen \/ q.instructions > MaxFieldLen

\* C23: a forward request with a parameter missing or with descriptions or
\* instructions over the limit is rejected before the core: it is not answered
\* as a duplicate, no message is sent and nothing is tracked for it.
C23_MalformedNeverReachesCore ==
    [][\A header \in Headers, q \in Requests :
          (pc["h1"] = "idle" /\ Malformed(q) /\ Forward("h1", header, q))
              => /\ out'.op = "ForwardTransaction"
                 /\ out'.status \in {400, 401}
                 /\ out'.status = 400 <=> Authenticate(apiKey, header) = ""
                 /\ pc' = pc /\ req' = req
                 /\ sent' = sent /\ cache' = cache /\ rows' = rows]_vars

\* C23 witness: a request whose TrxID is tracked was rejected for its length,
\* not as a duplicate.
C23_Witness ==
    /\ out.op = "ForwardTransaction"
    /\ out.status = 400
    /\ out.code = "ERR_INVALID_PARAMETER"
    /\ MemGetByTrxID(cache, out.trxId, now) # {}

\* C26: with an API key configured the handler is invoked only for a request
\* whose X-API-Key equals the key, every other request is answered 401 and
\* changes nothing; without a key every request reaches the handler.
C26_ApiKeyGuardsHandler ==
    [][\A header \in Headers, q \in Requests :
          (pc["h1"] = "idle" /\ Forward("h1", header, q))
              => IF apiKey = "" \/ header = apiKey
                 THEN out'.op = "ForwardTransaction" => out'.status # 401
                 ELSE /\ out'.op = "ForwardTransaction"
                      /\ out'.status = 401
                      /\ out'.code = "ERR_UNAUTHORIZED"
                      /\ pc' = pc /\ req' = req
                      /\ sent' = sent /\ cache' = cache]_vars

\* C26 witness: a request with a key that differs from the configured one only
\* in case was answered 401.
C26_Witness ==
    /\ apiKey = "secret"
    /\ out.op = "ForwardTransaction"
    /\ out.status = 401
    /\ out.message = "Invalid API key"

\* C31: the duplicate check comes first. A request whose TrxID has an active
\* record is answered with the duplicate error whatever its destination is,
\* also one that ValidateDestination would reject; the call does not reach
\* ValidateDestination (the error wraps no validation error, the handler is not
\* left in flight) and sends nothing.
C31_DuplicateCheckFirst ==
    [][\A t \in TrxIDs, d \in RequestDestinations :
          (backend = "repo" /\ pc["h1"] = "idle" /\ ActiveRows(t) # {}
             /\ PT_Check("h1", t, d, FALSE))
          => /\ out'.err = "duplicate transaction"
             /\ out'.trxId = t
             /\ out'.cause = ""
             /\ pc' = pc
             /\ req' = req
             /\ sent' = sent
             /\ rows' = rows]_vars

\* C31 witness: a request was just rejected as a duplicate, and the request
\* with the same TrxID and a destination that is no phone number gets the
\* very same answer.
C31_Witness ==
    /\ backend = "repo"
    /\ IsOutcome
    /\ out.err = "duplicate transaction"
    /\ ValidateDestination(BadDestination, TRUE) = "invalid phone number format"
    /\ ENABLED (PT_Check("h1", out.trxId, BadDestination, FALSE) /\ out' = out)

\* C32: when the lookup of the duplicate check fails, ProcessTransaction
\* returns an error, sends no message, writes no record and leaves the store
\* as it was; the call is over.
C32_LookupFailureStops ==
    [][\A t \in TrxIDs, d \in RequestDestinations :
          (backend = "repo" /\ pc["h1"] = "idle" /\ PT_Check("h1", t, d, TRUE))
          => /\ pc' = pc
             /\ req' = req
             /\ sent' = sent
             /\ rows' = rows
             /\ out'.op = "ProcessTransaction"
             /\ out'.err = "failed to check existing transaction"
             /\ out'.messageId = 0]_vars

\* C32 witness: the lookup failed for a TrxID that the store holds an active
\* record of, and the store still holds exactly the records sent.
C32_Witness ==
    /\ backend = "repo"
    /\ IsOutcome
    /\ out.err = "failed to check existing transaction"
    /\ ActiveRows(out.trxId) # {}
    /\ Cardinality(rows) = sent
    /\ pc["h1"] = "idle"

\* C33: a record of the table is never changed. A row leaves the table only
\* in a CleanupExpired call and only when it has expired; a row that enters
\* the table is the record of a ProcessTransaction call and takes the place of
\* no row (no row had its TrxID or its message id); the step of a handler
\* that looks a TrxID up (it leaves the idle position or returns from it) and
\* the lookup by destination for an inbound message leave the table as it was.
C33_RecordsImmutable ==
    [][/\ \A r \in rows \ rows' : out'.op = "CleanupExpired" /\ r.expiresAt <= now
       /\ \A r \in rows' \ rows :
             /\ out'.op = "ProcessTransaction"
             /\ \A o \in rows : o.trxId # r.trxId /\ o.messageId # r.messageId
       /\ (pc["h1"] = "idle" /\ out'.op \in {"ProcessTransaction", "none"}) => rows' = rows
       /\ out'.op = "handleIncomingMessage" => rows' = rows]_vars

\* C33 witness: ProcessTransaction has just stored a second record while the
\* first one, already expired, is still in the table as it was written.
C33_Witness ==
    /\ IsOutcome
    /\ out.err = ""
    /\ out.saveErr = ""
    /\ \E r \in rows :
          /\ r.messageId = out.messageId
          /\ \E o \in rows : /\ o.messageId # r.messageId
                             /\ o.expiresAt <= now
                             /\ o.expiresAt = o.sentAt + TTL

\* C34: every record that ProcessTransaction has written, into the table or
\* into the tracker, expires exactly TTL after its sentAt.
C34_ExpiresAtExact == \A r \in rows \cup cache : r.expiresAt = r.sentAt + TTL

\* C35: the sweeper runs from the construction of the service on, and with
\* its ticker firing again and again every record that has expired is
\* eventually deleted from the table, whatever requests arrive or do not.
C35_ExpiredEventuallyRemoved ==
    /\ [](backend = "repo" => ENABLED CleanupExpired)
    /\ \A m \in 1..MaxMsgs :
          (\E r \in rows : r.messageId = m /\ r.expiresAt <= now)
             ~> (\A r \in rows : r.messageId # m)

\* C35 witness: the sweeper has just deleted the only record, expired, while
\* a request is in flight.
C35_Witness ==
    /\ out.op = "CleanupExpired"
    /\ out.count = 1
    /\ sent = 1
    /\ rows = {}
    /\ pc["h1"] = "send"

\* C36: whatever retry count the configuration holds, a SendWebhook call that
\* returns an error has made at least one attempt, and the error it returns
\* wraps the error of an attempt (not nil).
C36_AtLeastOneAttempt ==
    (HasReturned /\ out.result.failed)
        => /\ Len(out.errs) >= 1
           /\ out.result.cause # NoErr

\* C37: when the lookup by chat address fails for an inbound message that
\* passed the filters, the event is dropped: no payload is built, no
\* SendWebhook call starts, and the table is as it was.
C37_LookupFailureDropsEvent ==
    [][\A evt \in Events :
          (wh.pc = "idle" /\ ~evt.isFromMe /\ Passes(evt.chat) /\ handleEvent(evt, TRUE))
          => /\ wh' = IdleWh
             /\ rows' = rows
             /\ sent' = sent
             /\ out'.outcome = "lookup failed"
             /\ "payload" \notin DOMAIN out']_vars

\* C37 witness: the lookup failed for a message from a chat that has an
\* active record, under a whitelist that names the chat; nothing is being
\* delivered.
C37_Witness ==
    /\ out.op = "handleIncomingMessage"
    /\ out.outcome = "lookup failed"
    /\ whitelist = {out.chat}
    /\ GetByDestination(rows, out.chat, now) # {}
    /\ wh = IdleWh

\* C38: once the process has begun its shutdown, a SendWebhook call in
\* progress starts no further backoff sleep and no further delivery attempt.
C38_RetriesStopAtShutdown ==
    [][phase # "serving" => (~SW_Backoff /\ \A answer \in Answers : ~SW_Send(answer))]_vars

\* C39: after Close has closed the store, the sweeper makes no further
\* CleanupExpired call.
C39_SweeperStopsAtClose ==
    [][phase = "closed" => ~cleanupExpiredPeriodically]_vars

====
